---- MODULE Spec2Model ----
(***************************************************************************)
(* Model of packages/next-on-fleek/src/buildApplication/buildApplication.ts *)
(* buildApplication and prepareAndBuildWorker as a state machine.  Every    *)
(* awaited call is two steps, Call_x (the call starts) and Ret_x (the       *)
(* awaited promise settles: it resolves with a value, or rejects).          *)
(***************************************************************************)
EXTENDS Naturals, Sequences, FiniteSets, TLC

\* ---------------------------------------------------------------- bounds
MaxAssets == 2
MaxFunctions == 2

AssetIds == 1..MaxAssets
FunctionIds == 1..MaxFunctions

\* ------------------------------------------------------------ vocabulary
FunctionKinds == {"edge", "prerendered", "unsupported"}
DirEntries == FunctionKinds \cup {"absent"}

\* the awaited (or called) collaborators, buildApplication.ts:41-167
Stages ==
  { "getPackageManager", "buildVercelOutput", "getRunExec",
    "prepareAndBuildWorker", "getVercelConfig", "getVercelStaticAssets",
    "processOutputDir", "validateDir", "processVercelFunctions",
    "processVercelOutput", "buildWorkerFile", "buildMetadataFiles",
    "printBuildSummary", "writeBuildInfo" }

\* the order of the calls in the body of prepareAndBuildWorker
StageOrder ==
  << "getVercelConfig", "getVercelStaticAssets", "processOutputDir",
     "validateDir", "processVercelFunctions", "processVercelOutput",
     "buildWorkerFile", "buildMetadataFiles", "printBuildSummary",
     "writeBuildInfo" >>

\* the build configurations getVercelConfig may resolve with
Configs ==
  { [version |-> 3, routes |-> << "rewrite" >>],
    [version |-> 3, routes |-> << "redirect", "miss" >>] }

NoConfig == [version |-> 0, routes |-> << >>]

VARIABLES
  opts,                 \* the CliOptions picked by buildApplication
  pc,                   \* position in buildApplication / prepareAndBuildWorker
  outcome,              \* status: running | returned | threw | exited; error: what was thrown
  exitCode,             \* the code given to exit(), 0 while exit was not called
  started,              \* per collaborator: how many times it was invoked
  finished,             \* per collaborator: no | ok | threw
  logs,                 \* the cli messages emitted, in order
  buildSuccess,         \* let buildSuccess (line 56)
  vercelConfig,         \* let vercelConfig (line 106)
  staticAssets,         \* const staticAssets (line 116)
  functionsDirValid,    \* unknown, or validateDir(functionsDir)'s answer: yes | no
  functionsDir,         \* the content of .vercel/output/functions
  collected,            \* functions handled so far by a running processVercelFunctions
  processedFunctions,   \* let processedFunctions (line 120)
  pvoArgs,              \* the arguments processVercelOutput was called with
  processedVercelOutput,\* const processedVercelOutput (line 142)
  outputtedWorkerPath,  \* const outputtedWorkerPath (line 149)
  disk                  \* what the run wrote under outputDir

vars ==
  << opts, pc, outcome, exitCode, started, finished, logs, buildSuccess,
     vercelConfig, staticAssets, functionsDirValid, functionsDir, collected,
     processedFunctions, pvoArgs, processedVercelOutput, outputtedWorkerPath,
     disk >>

\* --------------------------------------------------------------- helpers

\* a set of naturals as the ascending sequence of its elements
RECURSIVE SortedSeq(_)
SortedSeq(S) ==
  IF S = {} THEN << >>
  ELSE LET m == CHOOSE x \in S : \A y \in S : x <= y
       IN << m >> \o SortedSeq(S \ {m})

Last(s) == s[Len(s)]
Front(s) == SubSeq(s, 1, Len(s) - 1)

\* an optional value: {} is undefined, {v} is v
Undefined == {}
Some(v) == {v}

EmptyDisk ==
  [ static    |-> {},        \* static assets copied into outputDir
    functions |-> {},        \* function files under __next-on-pages-dist__
    chunks    |-> {},        \* shared chunk files under __next-on-pages-dist__
    entry     |-> {},        \* _worker.js/index.js, absent or its content
    metadata  |-> {},        \* _headers / _routes.json in outputDir
    buildInfo |-> {} ]       \* the build log in the _worker.js directory

NoProcessedFunctions ==
  [ defined |-> FALSE, prerenderedFunctions |-> {}, edgeFunctions |-> {},
    invalidFunctions |-> {}, functionFiles |-> {}, chunks |-> {} ]

NoArgs ==
  [ config |-> NoConfig, assets |-> {}, prerendered |-> Undefined,
    edge |-> Undefined ]

\* the functions of a directory that are processed (not skipped with a warning)
Supported(dir) == { f \in FunctionIds : dir[f] \in {"edge", "prerendered"} }
Unsupported(dir) == { f \in FunctionIds : dir[f] = "unsupported" }

\* the code units function f depends on: the shared runtime unit 0 and its own
UnitsOf(f) == {0, f}

\* the units hoisted into shared chunks: those referenced by two or more functions
SharedUnits(fns, disableChunksDedup) ==
  IF disableChunksDedup THEN {}
  ELSE { u \in UNION { UnitsOf(f) : f \in fns } :
           Cardinality({ f \in fns : u \in UnitsOf(f) }) >= 2 }

\* what processVercelFunctions resolves with, having handled the functions fns
processVercelFunctionsResult(fns, dir, disableChunksDedup) ==
  LET shared == SharedUnits(fns, disableChunksDedup)
  IN [ defined              |-> TRUE,
       prerenderedFunctions |-> { f \in fns : dir[f] = "prerendered" },
       edgeFunctions        |-> { f \in fns : dir[f] = "edge" },
       invalidFunctions     |-> Unsupported(dir),
       functionFiles        |-> { [ fn      |-> f,
                                    inlined |-> UnitsOf(f) \ shared,
                                    imports |-> UnitsOf(f) \cap shared ] : f \in fns },
       chunks               |-> shared ]

\* the route table processVercelOutput builds
RouteEntry(kind, ref) == [kind |-> kind, ref |-> ref]

RoutesToEntries(routes) == [ i \in 1..Len(routes) |-> RouteEntry(routes[i], i) ]

FunctionEntries(prerendered, edge) ==
  LET fns == UNION prerendered \cup UNION edge
      s == SortedSeq(fns)
  IN [ i \in 1..Len(s) |->
         RouteEntry(IF s[i] \in UNION prerendered THEN "prerendered" ELSE "edge", s[i]) ]

BuildRouteTable(config, assets, prerendered, edge) ==
  LET statics == [ i \in 1..Cardinality(assets) |->
                     RouteEntry("static", SortedSeq(assets)[i]) ]
      explicit == RoutesToEntries(config.routes)
      hasMiss == Len(explicit) > 0 /\ Last(explicit).kind = "miss"
      body == IF hasMiss THEN Front(explicit) ELSE explicit
      tail == IF hasMiss THEN << Last(explicit) >> ELSE << >>
  IN statics \o body \o FunctionEntries(prerendered, edge) \o tail

\* the worker bundle: what lies under the _worker.js directory, build log aside
Bundle(d) == [ entry |-> d.entry, functions |-> d.functions, chunks |-> d.chunks ]

Running(s) == started[s] > 0 /\ finished[s] = "no"

\* ------------------------------------------------------------ step shapes
Outcome(status, error) == [status |-> status, error |-> error]

\* the fatal errors a collaborator may reject with
Errors(s) ==
  CASE s = "getVercelStaticAssets"  -> {"AssetCollisionError", "IOError"}
    [] s = "processVercelFunctions" -> {"ChunkIntegrityError", "IOError"}
    [] s = "buildWorkerFile"        -> {"AssemblyError", "IOError"}
    [] OTHER                        -> {"IOError"}

Invoke(s) == started' = [started EXCEPT ![s] = @ + 1]
Resolve(s) == finished' = [finished EXCEPT ![s] = "ok"]

\* an uncaught rejection inside prepareAndBuildWorker leaves buildApplication too
Reject(s) ==
  /\ finished' = [finished EXCEPT ![s] = "threw", !["prepareAndBuildWorker"] = "threw"]
  /\ pc' = "done"
  /\ \E e \in Errors(s) : outcome' = Outcome("threw", e)

Exit(code) ==
  /\ pc' = "done"
  /\ outcome' = Outcome("exited", "none")
  /\ exitCode' = code

\* ------------------------------------------------------------------ Init
Init ==
  /\ opts \in [ skipBuild : BOOLEAN, disableChunksDedup : BOOLEAN,
                disableWorkerMinification : BOOLEAN, watch : BOOLEAN,
                customEntrypoint : BOOLEAN ]
  /\ pc = "call_getPackageManager"
  /\ outcome = Outcome("running", "none")
  /\ exitCode = 0
  /\ started = [s \in Stages |-> 0]
  /\ finished = [s \in Stages |-> "no"]
  /\ logs = << >>
  /\ buildSuccess = TRUE
  /\ vercelConfig = NoConfig
  /\ staticAssets = {}
  /\ functionsDirValid = "unknown"
  /\ functionsDir = [f \in FunctionIds |-> "absent"]
  /\ collected = {}
  /\ processedFunctions = NoProcessedFunctions
  /\ pvoArgs = NoArgs
  /\ processedVercelOutput = << >>
  /\ outputtedWorkerPath = "none"
  /\ disk = EmptyDisk

\* ------------------------------------------------------- buildApplication

\* line 41: const pm = await getPackageManager()
Call_getPackageManager ==
  /\ pc = "call_getPackageManager"
  /\ pc' = "in_getPackageManager"
  /\ Invoke("getPackageManager")
  /\ UNCHANGED << opts, outcome, exitCode, finished, logs, buildSuccess,
                  vercelConfig, staticAssets, functionsDirValid, functionsDir,
                  collected, processedFunctions, pvoArgs, processedVercelOutput,
                  outputtedWorkerPath, disk >>

\* lines 41-57: the package manager checks, let buildSuccess = true, if (!skipBuild)
Ret_getPackageManager ==
  /\ pc = "in_getPackageManager"
  /\ \E pm \in {"null", "same", "differs"} :
       \/ /\ pm = "null"
          /\ finished' = [finished EXCEPT !["getPackageManager"] = "ok"]
          /\ pc' = "done"
          /\ outcome' = Outcome("threw", "Error:packageManager")
          /\ UNCHANGED << logs, buildSuccess >>
       \/ /\ pm # "null"
          /\ Resolve("getPackageManager")
          /\ logs' = IF pm = "differs" THEN Append(logs, "warn:packageManager") ELSE logs
          /\ buildSuccess' = TRUE
          /\ pc' = IF opts.skipBuild THEN "check_buildSuccess" ELSE "call_buildVercelOutput"
          /\ UNCHANGED outcome
  /\ UNCHANGED << opts, exitCode, started, vercelConfig, staticAssets,
                  functionsDirValid, functionsDir, collected, processedFunctions,
                  pvoArgs, processedVercelOutput, outputtedWorkerPath, disk >>

\* line 59: await buildVercelOutput(pm)
Call_buildVercelOutput ==
  /\ pc = "call_buildVercelOutput"
  /\ pc' = "in_buildVercelOutput"
  /\ Invoke("buildVercelOutput")
  /\ UNCHANGED << opts, outcome, exitCode, finished, logs, buildSuccess,
                  vercelConfig, staticAssets, functionsDirValid, functionsDir,
                  collected, processedFunctions, pvoArgs, processedVercelOutput,
                  outputtedWorkerPath, disk >>

\* lines 58-61: the try resolves, or its catch begins with await pm.getRunExec
Ret_buildVercelOutput ==
  /\ pc = "in_buildVercelOutput"
  /\ \/ /\ Resolve("buildVercelOutput")
        /\ pc' = "check_buildSuccess"
        /\ UNCHANGED started
     \/ /\ finished' = [finished EXCEPT !["buildVercelOutput"] = "threw"]
        /\ pc' = "in_getRunExec"
        /\ Invoke("getRunExec")
  /\ UNCHANGED << opts, outcome, exitCode, logs, buildSuccess, vercelConfig,
                  staticAssets, functionsDirValid, functionsDir, collected,
                  processedFunctions, pvoArgs, processedVercelOutput,
                  outputtedWorkerPath, disk >>

\* lines 61-75: execStr (a string or null), cliError, buildSuccess = false
Ret_getRunExec ==
  /\ pc = "in_getRunExec"
  /\ \E execStr \in {"null", "vercel build"} :
       logs' = Append(logs, IF execStr = "null" THEN "error:vercelBuild"
                            ELSE "error:vercelBuild:execStr")
  /\ Resolve("getRunExec")
  /\ buildSuccess' = FALSE
  /\ pc' = "check_buildSuccess"
  /\ UNCHANGED << opts, outcome, exitCode, started, vercelConfig, staticAssets,
                  functionsDirValid, functionsDir, collected, processedFunctions,
                  pvoArgs, processedVercelOutput, outputtedWorkerPath, disk >>

\* variant: if (!buildSuccess) { if (!watch) exit(1); } without the return
CheckBuildSuccess_NoReturn ==
  /\ pc = "check_buildSuccess"
  /\ \/ /\ ~buildSuccess
        /\ ~opts.watch
        /\ Exit(1)
        /\ UNCHANGED << started >>
     \/ /\ buildSuccess \/ opts.watch
        /\ pc' = "call_getVercelConfig"
        /\ Invoke("prepareAndBuildWorker")
        /\ UNCHANGED << outcome, exitCode >>
  /\ UNCHANGED << opts, finished, logs, buildSuccess, vercelConfig,
                  staticAssets, functionsDirValid, functionsDir, collected,
                  processedFunctions, pvoArgs, processedVercelOutput,
                  outputtedWorkerPath, disk >>

\* lines 78-85: if (!buildSuccess) { if (!watch) exit(1); return; } then the
\* call of prepareAndBuildWorker, whose body starts with await getVercelConfig()
CheckBuildSuccess ==
  /\ pc = "check_buildSuccess"
  /\ \/ /\ ~buildSuccess
        /\ ~opts.watch
        /\ Exit(1)
        /\ UNCHANGED << started >>
     \/ /\ ~buildSuccess
        /\ opts.watch
        /\ pc' = "done"
        /\ outcome' = Outcome("returned", "none")
        /\ UNCHANGED << exitCode, started >>
     \/ /\ buildSuccess
        /\ pc' = "call_getVercelConfig"
        /\ Invoke("prepareAndBuildWorker")
        /\ UNCHANGED << outcome, exitCode >>
  /\ UNCHANGED << opts, finished, logs, buildSuccess, vercelConfig, staticAssets,
                  functionsDirValid, functionsDir, collected, processedFunctions,
                  pvoArgs, processedVercelOutput, outputtedWorkerPath, disk >>

\* ---------------------------------------------------- prepareAndBuildWorker

\* effects of the collaborators on the output directory
processOutputDirWrites(d, assets) == [d EXCEPT !.static = assets]

processVercelFunctionsWrites(d, result) ==
  [d EXCEPT !.functions = result.functionFiles, !.chunks = result.chunks]

buildWorkerFileWrites(d, routeTable, minify, customEntrypoint) ==
  [d EXCEPT !.entry = Some([ routes |-> routeTable, minify |-> minify,
                             customEntrypoint |-> customEntrypoint ])]

buildMetadataFilesWrites(d, assets) ==
  [d EXCEPT !.metadata = {"_routes.json"} \cup (IF assets = {} THEN {} ELSE {"_headers"})]

writeBuildInfoWrites(d, assets, routeTable, functions) ==
  [d EXCEPT !.buildInfo = Some([ assets |-> Cardinality(assets),
                                 routes |-> Len(routeTable),
                                 invalid |-> functions.invalidFunctions ])]

\* line 108: vercelConfig = await getVercelConfig()
Call_getVercelConfig ==
  /\ pc = "call_getVercelConfig"
  /\ pc' = "in_getVercelConfig"
  /\ Invoke("getVercelConfig")
  /\ UNCHANGED << opts, outcome, exitCode, finished, logs, buildSuccess,
                  vercelConfig, staticAssets, functionsDirValid, functionsDir,
                  collected, processedFunctions, pvoArgs,
                  processedVercelOutput, outputtedWorkerPath, disk >>

\* variant: exit(1) sits inside if (e instanceof Error), so a thrown value that
\* is no Error falls out of the catch and the body goes on
Ret_getVercelConfig_ExitInsideIf ==
  /\ pc = "in_getVercelConfig"
  /\ \/ /\ \E cfg \in Configs : vercelConfig' = cfg
        /\ Resolve("getVercelConfig")
        /\ pc' = "call_getVercelStaticAssets"
        /\ UNCHANGED << outcome, exitCode, logs >>
     \/ /\ logs' = Append(logs, "error:config")
        /\ finished' = [finished EXCEPT !["getVercelConfig"] = "threw"]
        /\ Exit(1)
        /\ UNCHANGED vercelConfig
     \/ /\ finished' = [finished EXCEPT !["getVercelConfig"] = "threw"]
        /\ pc' = "call_getVercelStaticAssets"
        /\ UNCHANGED << outcome, exitCode, logs, vercelConfig >>
  /\ UNCHANGED << opts, started, buildSuccess, staticAssets, functionsDirValid,
                  functionsDir, collected, processedFunctions, pvoArgs,
                  processedVercelOutput, outputtedWorkerPath, disk >>

\* lines 107-114: the try resolves, or catch (e) { if (e instanceof Error)
\* cliError(e.message); exit(1) }
Ret_getVercelConfig ==
  /\ pc = "in_getVercelConfig"
  /\ \/ /\ \E cfg \in Configs : vercelConfig' = cfg
        /\ Resolve("getVercelConfig")
        /\ pc' = "call_getVercelStaticAssets"
        /\ UNCHANGED << outcome, exitCode, logs >>
     \/ /\ \E e \in {"Error", "notAnError"} :
             logs' = IF e = "Error" THEN Append(logs, "error:config") ELSE logs
        /\ finished' = [finished EXCEPT !["getVercelConfig"] = "threw"]
        /\ Exit(1)
        /\ UNCHANGED vercelConfig
  /\ UNCHANGED << opts, started, buildSuccess, staticAssets, functionsDirValid,
                  functionsDir, collected, processedFunctions, pvoArgs,
                  processedVercelOutput, outputtedWorkerPath, disk >>

\* line 116: const staticAssets = await getVercelStaticAssets()
Call_getVercelStaticAssets ==
  /\ pc = "call_getVercelStaticAssets"
  /\ pc' = "in_getVercelStaticAssets"
  /\ Invoke("getVercelStaticAssets")
  /\ UNCHANGED << opts, outcome, exitCode, finished, logs, buildSuccess,
                  vercelConfig, staticAssets, functionsDirValid, functionsDir,
                  collected, processedFunctions, pvoArgs,
                  processedVercelOutput, outputtedWorkerPath, disk >>

\* variant: a failed collection is caught and taken for an empty asset list
Ret_getVercelStaticAssets_Swallowed ==
  /\ pc = "in_getVercelStaticAssets"
  /\ \/ /\ \E assets \in SUBSET AssetIds : staticAssets' = assets
        /\ Resolve("getVercelStaticAssets")
     \/ /\ staticAssets' = {}
        /\ finished' = [finished EXCEPT !["getVercelStaticAssets"] = "threw"]
  /\ pc' = "call_processOutputDir"
  /\ UNCHANGED << opts, outcome, exitCode, started, logs, buildSuccess,
                  vercelConfig, functionsDirValid, functionsDir, collected,
                  processedFunctions, pvoArgs, processedVercelOutput,
                  outputtedWorkerPath, disk >>

Ret_getVercelStaticAssets ==
  /\ pc = "in_getVercelStaticAssets"
  /\ \/ /\ \E assets \in SUBSET AssetIds : staticAssets' = assets
        /\ Resolve("getVercelStaticAssets")
        /\ pc' = "call_processOutputDir"
        /\ UNCHANGED outcome
     \/ /\ Reject("getVercelStaticAssets")
        /\ UNCHANGED staticAssets
  /\ UNCHANGED << opts, exitCode, started, logs, buildSuccess, vercelConfig,
                  functionsDirValid, functionsDir, collected,
                  processedFunctions, pvoArgs, processedVercelOutput,
                  outputtedWorkerPath, disk >>

\* variant: processOutputDir(outputDir, staticAssets) is called but not awaited
Call_processOutputDir_NotAwaited ==
  /\ pc = "call_processOutputDir"
  /\ pc' = "call_validateDir"
  /\ Invoke("processOutputDir")
  /\ UNCHANGED << opts, outcome, exitCode, finished, logs, buildSuccess,
                  vercelConfig, staticAssets, functionsDirValid, functionsDir,
                  collected, processedFunctions, pvoArgs,
                  processedVercelOutput, outputtedWorkerPath, disk >>

\* line 118: await processOutputDir(outputDir, staticAssets)
Call_processOutputDir ==
  /\ pc = "call_processOutputDir"
  /\ pc' = "in_processOutputDir"
  /\ Invoke("processOutputDir")
  /\ UNCHANGED << opts, outcome, exitCode, finished, logs, buildSuccess,
                  vercelConfig, staticAssets, functionsDirValid, functionsDir,
                  collected, processedFunctions, pvoArgs,
                  processedVercelOutput, outputtedWorkerPath, disk >>

Ret_processOutputDir ==
  /\ pc = "in_processOutputDir"
  /\ \/ /\ disk' = processOutputDirWrites(disk, staticAssets)
        /\ Resolve("processOutputDir")
        /\ pc' = "call_validateDir"
        /\ UNCHANGED outcome
     \/ /\ Reject("processOutputDir")
        /\ UNCHANGED disk
  /\ UNCHANGED << opts, exitCode, started, logs, buildSuccess, vercelConfig,
                  staticAssets, functionsDirValid, functionsDir, collected,
                  processedFunctions, pvoArgs, processedVercelOutput,
                  outputtedWorkerPath >>

\* line 127: await validateDir(functionsDir)
Call_validateDir ==
  /\ pc = "call_validateDir"
  /\ pc' = "in_validateDir"
  /\ Invoke("validateDir")
  /\ UNCHANGED << opts, outcome, exitCode, finished, logs, buildSuccess,
                  vercelConfig, staticAssets, functionsDirValid, functionsDir,
                  collected, processedFunctions, pvoArgs,
                  processedVercelOutput, outputtedWorkerPath, disk >>

\* variant: a missing functions directory is treated as a fatal error
Ret_validateDir_Abort ==
  /\ pc = "in_validateDir"
  /\ \/ /\ functionsDirValid' = "no"
        /\ logs' = Append(logs, "log:noFunctions")
        /\ finished' = [finished EXCEPT !["validateDir"] = "ok",
                                        !["prepareAndBuildWorker"] = "threw"]
        /\ pc' = "done"
        /\ outcome' = Outcome("threw", "IOError")
        /\ UNCHANGED functionsDir
     \/ /\ functionsDirValid' = "yes"
        /\ \E dir \in [FunctionIds -> DirEntries] : functionsDir' = dir
        /\ Resolve("validateDir")
        /\ pc' = "call_processVercelFunctions"
        /\ UNCHANGED << logs, outcome >>
  /\ UNCHANGED << opts, exitCode, started, buildSuccess, vercelConfig,
                  staticAssets, collected, processedFunctions, pvoArgs,
                  processedVercelOutput, outputtedWorkerPath, disk >>

\* lines 127-131: the branch on validateDir's answer
Ret_validateDir ==
  /\ pc = "in_validateDir"
  /\ Resolve("validateDir")
  /\ \/ /\ functionsDirValid' = "no"
        /\ logs' = Append(logs, "log:noFunctions")
        /\ pc' = "call_processVercelOutput"
        /\ UNCHANGED functionsDir
     \/ /\ functionsDirValid' = "yes"
        /\ \E dir \in [FunctionIds -> DirEntries] : functionsDir' = dir
        /\ pc' = "call_processVercelFunctions"
        /\ UNCHANGED logs
  /\ UNCHANGED << opts, outcome, exitCode, started, buildSuccess, vercelConfig,
                  staticAssets, collected, processedFunctions, pvoArgs,
                  processedVercelOutput, outputtedWorkerPath, disk >>

\* line 132: processedFunctions = await processVercelFunctions({...})
Call_processVercelFunctions ==
  /\ pc = "call_processVercelFunctions"
  /\ pc' = "in_processVercelFunctions"
  /\ Invoke("processVercelFunctions")
  /\ collected' = {}
  /\ UNCHANGED << opts, outcome, exitCode, finished, logs, buildSuccess,
                  vercelConfig, staticAssets, functionsDirValid, functionsDir,
                  processedFunctions, pvoArgs, processedVercelOutput,
                  outputtedWorkerPath, disk >>

\* inside processVercelFunctions: one more function directory is handled
Step_processVercelFunctions ==
  /\ pc = "in_processVercelFunctions"
  /\ \E f \in Supported(functionsDir) \ collected : collected' = collected \cup {f}
  /\ UNCHANGED << opts, pc, outcome, exitCode, started, finished, logs,
                  buildSuccess, vercelConfig, staticAssets, functionsDirValid,
                  functionsDir, processedFunctions, pvoArgs,
                  processedVercelOutput, outputtedWorkerPath, disk >>

\* variant: the result is taken before every function directory was handled
Ret_processVercelFunctions_Partial ==
  /\ pc = "in_processVercelFunctions"
  /\ \/ /\ LET result == processVercelFunctionsResult(collected, functionsDir,
                                                      opts.disableChunksDedup)
           IN /\ processedFunctions' = result
              /\ disk' = processVercelFunctionsWrites(disk, result)
        /\ logs' = IF Unsupported(functionsDir) # {}
                   THEN Append(logs, "warn:invalidFunctions") ELSE logs
        /\ Resolve("processVercelFunctions")
        /\ pc' = "call_processVercelOutput"
        /\ UNCHANGED outcome
     \/ /\ Reject("processVercelFunctions")
        /\ UNCHANGED << processedFunctions, disk, logs >>
  /\ UNCHANGED << opts, exitCode, started, buildSuccess, vercelConfig,
                  staticAssets, functionsDirValid, functionsDir, collected,
                  pvoArgs, processedVercelOutput, outputtedWorkerPath >>

\* line 132: the awaited promise settles and processedFunctions is assigned
Ret_processVercelFunctions ==
  /\ pc = "in_processVercelFunctions"
  /\ \/ /\ collected = Supported(functionsDir)
        /\ LET result == processVercelFunctionsResult(collected, functionsDir,
                                                      opts.disableChunksDedup)
           IN /\ processedFunctions' = result
              /\ disk' = processVercelFunctionsWrites(disk, result)
        /\ logs' = IF Unsupported(functionsDir) # {}
                   THEN Append(logs, "warn:invalidFunctions") ELSE logs
        /\ Resolve("processVercelFunctions")
        /\ pc' = "call_processVercelOutput"
        /\ UNCHANGED outcome
     \/ /\ Reject("processVercelFunctions")
        /\ UNCHANGED << processedFunctions, disk, logs >>
  /\ UNCHANGED << opts, exitCode, started, buildSuccess, vercelConfig,
                  staticAssets, functionsDirValid, functionsDir, collected,
                  pvoArgs, processedVercelOutput, outputtedWorkerPath >>

\* variant: the function sets are handed over only when dedup ran
Call_processVercelOutput_DedupDependent ==
  /\ pc = "call_processVercelOutput"
  /\ pc' = "in_processVercelOutput"
  /\ Invoke("processVercelOutput")
  /\ pvoArgs' =
       [ config      |-> vercelConfig,
         assets      |-> staticAssets,
         prerendered |-> IF processedFunctions.defined /\ ~opts.disableChunksDedup
                         THEN Some(processedFunctions.prerenderedFunctions)
                         ELSE Undefined,
         edge        |-> IF processedFunctions.defined /\ ~opts.disableChunksDedup
                         THEN Some(processedFunctions.edgeFunctions)
                         ELSE Undefined ]
  /\ UNCHANGED << opts, outcome, exitCode, finished, logs, buildSuccess,
                  vercelConfig, staticAssets, functionsDirValid, functionsDir,
                  collected, processedFunctions, processedVercelOutput,
                  outputtedWorkerPath, disk >>

\* lines 142-147: processVercelOutput(vercelConfig, staticAssets,
\* processedFunctions?.collectedFunctions?.prerenderedFunctions, ...?.edgeFunctions)
Call_processVercelOutput ==
  /\ pc = "call_processVercelOutput"
  /\ pc' = "in_processVercelOutput"
  /\ Invoke("processVercelOutput")
  /\ pvoArgs' =
       [ config      |-> vercelConfig,
         assets      |-> staticAssets,
         prerendered |-> IF processedFunctions.defined
                         THEN Some(processedFunctions.prerenderedFunctions)
                         ELSE Undefined,
         edge        |-> IF processedFunctions.defined
                         THEN Some(processedFunctions.edgeFunctions)
                         ELSE Undefined ]
  /\ UNCHANGED << opts, outcome, exitCode, finished, logs, buildSuccess,
                  vercelConfig, staticAssets, functionsDirValid, functionsDir,
                  collected, processedFunctions, processedVercelOutput,
                  outputtedWorkerPath, disk >>

Ret_processVercelOutput ==
  /\ pc = "in_processVercelOutput"
  /\ \/ /\ processedVercelOutput' =
             BuildRouteTable(pvoArgs.config, pvoArgs.assets, pvoArgs.prerendered,
                             pvoArgs.edge)
        /\ Resolve("processVercelOutput")
        /\ pc' = "call_buildWorkerFile"
        /\ UNCHANGED outcome
     \/ /\ Reject("processVercelOutput")
        /\ UNCHANGED processedVercelOutput
  /\ UNCHANGED << opts, exitCode, started, logs, buildSuccess, vercelConfig,
                  staticAssets, functionsDirValid, functionsDir, collected,
                  processedFunctions, pvoArgs, outputtedWorkerPath, disk >>

\* line 149: outputtedWorkerPath = await buildWorkerFile(processedVercelOutput, {...})
Call_buildWorkerFile ==
  /\ pc = "call_buildWorkerFile"
  /\ pc' = "in_buildWorkerFile"
  /\ Invoke("buildWorkerFile")
  /\ UNCHANGED << opts, outcome, exitCode, finished, logs, buildSuccess,
                  vercelConfig, staticAssets, functionsDirValid, functionsDir,
                  collected, processedFunctions, pvoArgs,
                  processedVercelOutput, outputtedWorkerPath, disk >>

Ret_buildWorkerFile ==
  /\ pc = "in_buildWorkerFile"
  /\ \/ /\ disk' = buildWorkerFileWrites(disk, processedVercelOutput,
                                         ~opts.disableWorkerMinification,
                                         opts.customEntrypoint)
        /\ outputtedWorkerPath' = "_worker.js/index.js"
        /\ Resolve("buildWorkerFile")
        /\ pc' = "call_buildMetadataFiles"
        /\ UNCHANGED outcome
     \/ /\ Reject("buildWorkerFile")
        /\ UNCHANGED << disk, outputtedWorkerPath >>
  /\ UNCHANGED << opts, exitCode, started, logs, buildSuccess, vercelConfig,
                  staticAssets, functionsDirValid, functionsDir, collected,
                  processedFunctions, pvoArgs, processedVercelOutput >>

\* line 158: await buildMetadataFiles(outputDir, { staticAssets })
Call_buildMetadataFiles ==
  /\ pc = "call_buildMetadataFiles"
  /\ pc' = "in_buildMetadataFiles"
  /\ Invoke("buildMetadataFiles")
  /\ UNCHANGED << opts, outcome, exitCode, finished, logs, buildSuccess,
                  vercelConfig, staticAssets, functionsDirValid, functionsDir,
                  collected, processedFunctions, pvoArgs,
                  processedVercelOutput, outputtedWorkerPath, disk >>

\* variant: a failure of buildMetadataFiles is caught and ignored
Ret_buildMetadataFiles_Swallowed ==
  /\ pc = "in_buildMetadataFiles"
  /\ \/ /\ disk' = buildMetadataFilesWrites(disk, staticAssets)
        /\ Resolve("buildMetadataFiles")
     \/ /\ finished' = [finished EXCEPT !["buildMetadataFiles"] = "threw"]
        /\ UNCHANGED disk
  /\ pc' = "call_printBuildSummary"
  /\ UNCHANGED << opts, outcome, exitCode, started, logs, buildSuccess,
                  vercelConfig, staticAssets, functionsDirValid, functionsDir,
                  collected, processedFunctions, pvoArgs,
                  processedVercelOutput, outputtedWorkerPath >>

Ret_buildMetadataFiles ==
  /\ pc = "in_buildMetadataFiles"
  /\ \/ /\ disk' = buildMetadataFilesWrites(disk, staticAssets)
        /\ Resolve("buildMetadataFiles")
        /\ pc' = "call_printBuildSummary"
        /\ UNCHANGED outcome
     \/ /\ Reject("buildMetadataFiles")
        /\ UNCHANGED disk
  /\ UNCHANGED << opts, exitCode, started, logs, buildSuccess, vercelConfig,
                  staticAssets, functionsDirValid, functionsDir, collected,
                  processedFunctions, pvoArgs, processedVercelOutput,
                  outputtedWorkerPath >>

\* line 160: printBuildSummary(staticAssets, processedVercelOutput, processedFunctions)
Call_printBuildSummary ==
  /\ pc = "call_printBuildSummary"
  /\ pc' = "in_printBuildSummary"
  /\ Invoke("printBuildSummary")
  /\ UNCHANGED << opts, outcome, exitCode, finished, logs, buildSuccess,
                  vercelConfig, staticAssets, functionsDirValid, functionsDir,
                  collected, processedFunctions, pvoArgs,
                  processedVercelOutput, outputtedWorkerPath, disk >>

Ret_printBuildSummary ==
  /\ pc = "in_printBuildSummary"
  /\ \/ /\ logs' = Append(logs, "log:buildSummary")
        /\ Resolve("printBuildSummary")
        /\ pc' = "call_writeBuildInfo"
        /\ UNCHANGED outcome
     \/ /\ Reject("printBuildSummary")
        /\ UNCHANGED logs
  /\ UNCHANGED << opts, exitCode, started, buildSuccess, vercelConfig,
                  staticAssets, functionsDirValid, functionsDir, collected,
                  processedFunctions, pvoArgs, processedVercelOutput,
                  outputtedWorkerPath, disk >>

\* lines 162-167: await writeBuildInfo({ outputDir: workerJsDir, functionsDir }, ...)
Call_writeBuildInfo ==
  /\ pc = "call_writeBuildInfo"
  /\ pc' = "in_writeBuildInfo"
  /\ Invoke("writeBuildInfo")
  /\ UNCHANGED << opts, outcome, exitCode, finished, logs, buildSuccess,
                  vercelConfig, staticAssets, functionsDirValid, functionsDir,
                  collected, processedFunctions, pvoArgs,
                  processedVercelOutput, outputtedWorkerPath, disk >>

\* variant: the build info is written to outputtedWorkerPath, not into workerJsDir
Ret_writeBuildInfo_OntoWorkerPath ==
  /\ pc = "in_writeBuildInfo"
  /\ \/ /\ disk' = [disk EXCEPT !.entry =
                      Some([ routes |-> << >>, minify |-> FALSE,
                             customEntrypoint |-> FALSE ])]
        /\ Resolve("writeBuildInfo")
        /\ pc' = "cliSuccess"
        /\ UNCHANGED outcome
     \/ /\ Reject("writeBuildInfo")
        /\ UNCHANGED disk
  /\ UNCHANGED << opts, exitCode, started, logs, buildSuccess, vercelConfig,
                  staticAssets, functionsDirValid, functionsDir, collected,
                  processedFunctions, pvoArgs, processedVercelOutput,
                  outputtedWorkerPath >>

Ret_writeBuildInfo ==
  /\ pc = "in_writeBuildInfo"
  /\ \/ /\ disk' = writeBuildInfoWrites(disk, staticAssets, processedVercelOutput,
                                        processedFunctions)
        /\ Resolve("writeBuildInfo")
        /\ pc' = "cliSuccess"
        /\ UNCHANGED outcome
     \/ /\ Reject("writeBuildInfo")
        /\ UNCHANGED disk
  /\ UNCHANGED << opts, exitCode, started, logs, buildSuccess, vercelConfig,
                  staticAssets, functionsDirValid, functionsDir, collected,
                  processedFunctions, pvoArgs, processedVercelOutput,
                  outputtedWorkerPath >>

\* line 169: cliSuccess(`Generated '${outputtedWorkerPath}'.`), and the return
CliSuccess ==
  /\ pc = "cliSuccess"
  /\ logs' = Append(logs, "success:Generated")
  /\ Resolve("prepareAndBuildWorker")
  /\ pc' = "log_buildCompleted"
  /\ UNCHANGED << opts, outcome, exitCode, started, buildSuccess, vercelConfig,
                  staticAssets, functionsDirValid, functionsDir, collected,
                  processedFunctions, pvoArgs, processedVercelOutput,
                  outputtedWorkerPath, disk >>

\* lines 91-93: cliLog(`Build completed in ...s`), and buildApplication returns
LogBuildCompleted ==
  /\ pc = "log_buildCompleted"
  /\ logs' = Append(logs, "log:buildCompleted")
  /\ outcome' = Outcome("returned", "none")
  /\ pc' = "done"
  /\ UNCHANGED << opts, exitCode, started, finished, buildSuccess,
                  vercelConfig, staticAssets, functionsDirValid, functionsDir,
                  collected, processedFunctions, pvoArgs,
                  processedVercelOutput, outputtedWorkerPath, disk >>

Next ==
  \/ Call_getPackageManager
  \/ Ret_getPackageManager
  \/ Call_buildVercelOutput
  \/ Ret_buildVercelOutput
  \/ Ret_getRunExec
  \/ CheckBuildSuccess
  \/ Call_getVercelConfig
  \/ Ret_getVercelConfig
  \/ Call_getVercelStaticAssets
  \/ Ret_getVercelStaticAssets
  \/ Call_processOutputDir
  \/ Ret_processOutputDir
  \/ Call_validateDir
  \/ Ret_validateDir
  \/ Call_processVercelFunctions
  \/ Step_processVercelFunctions
  \/ Ret_processVercelFunctions
  \/ Call_processVercelOutput
  \/ Ret_processVercelOutput
  \/ Call_buildWorkerFile
  \/ Ret_buildWorkerFile
  \/ Call_buildMetadataFiles
  \/ Ret_buildMetadataFiles
  \/ Call_printBuildSummary
  \/ Ret_printBuildSummary
  \/ Call_writeBuildInfo
  \/ Ret_writeBuildInfo
  \/ CliSuccess
  \/ LogBuildCompleted

Spec == Init /\ [][Next]_vars

\* ---------------------------------------------------------------- claims
Logged(m) == \E i \in 1..Len(logs) : logs[i] = m

StagesAfterConfig ==
  { StageOrder[i] : i \in 2..Len(StageOrder) }

\* C1: the stages of prepareAndBuildWorker start in the order of StageOrder
\* (config, static assets, output dir, functions, route table, worker file,
\* metadata): when a stage has started, every earlier stage has completed
\* (processVercelFunctions alone may have been skipped, and only because
\* validateDir answered false), and no stage is invoked twice.
C1_StagesInOrder ==
  /\ \A s \in Stages : started[s] <= 1
  /\ \A i, j \in 1..Len(StageOrder) :
       (i < j /\ started[StageOrder[j]] > 0) =>
         \/ finished[StageOrder[i]] = "ok"
         \/ /\ StageOrder[i] = "processVercelFunctions"
            /\ functionsDirValid = "no"
            /\ started[StageOrder[i]] = 0

C1_Witness ==
  /\ pc = "done"
  /\ outcome.status = "returned"
  /\ \A i \in 1..Len(StageOrder) :
       started[StageOrder[i]] = 1 /\ finished[StageOrder[i]] = "ok"

\* C2: a failure raised by a stage after the config is loaded (static-asset
\* collection, output-dir processing, function processing, route-table
\* construction, worker assembly) leaves no pipeline-written file in the
\* output directory.
C2_NoPartialOutput ==
  (\E s \in { "getVercelStaticAssets", "processOutputDir",
              "processVercelFunctions", "processVercelOutput",
              "buildWorkerFile" } : finished[s] = "threw")
    => disk = EmptyDisk

\* C3: when getVercelConfig fails, with an Error or with any other thrown
\* value, the process exits with code 1, no later stage is ever invoked and
\* nothing is written.
C3_ConfigErrorAborts ==
  finished["getVercelConfig"] = "threw" =>
    /\ outcome.status = "exited"
    /\ exitCode = 1
    /\ pc = "done"
    /\ \A s \in StagesAfterConfig : started[s] = 0
    /\ disk = EmptyDisk

C3_Witness ==
  /\ finished["getVercelConfig"] = "threw"
  /\ ~Logged("error:config")

\* C4: processVercelOutput never begins while processVercelFunctions is in
\* progress, and when the functions directory exists the prerendered and edge
\* sets it receives are the complete sets of the directory, as resolved by the
\* finished processVercelFunctions call.
C4_FunctionBarrier ==
  started["processVercelOutput"] > 0 =>
    /\ ~Running("processVercelFunctions")
    /\ functionsDirValid = "yes" =>
         /\ finished["processVercelFunctions"] = "ok"
         /\ pvoArgs.prerendered =
              Some({ f \in FunctionIds : functionsDir[f] = "prerendered" })
         /\ pvoArgs.edge = Some({ f \in FunctionIds : functionsDir[f] = "edge" })
         /\ pvoArgs.prerendered = Some(processedFunctions.prerenderedFunctions)
         /\ pvoArgs.edge = Some(processedFunctions.edgeFunctions)

C4_Witness ==
  /\ started["processVercelOutput"] > 0
  /\ functionsDirValid = "yes"
  /\ pvoArgs.prerendered # Some({})
  /\ pvoArgs.edge # Some({})

\* C5: when getVercelStaticAssets fails (an AssetCollisionError included), the
\* run ends with that error, processOutputDir, buildWorkerFile,
\* buildMetadataFiles and writeBuildInfo are never invoked, and nothing is
\* written to the output directory.
C5_AssetFailureAborts ==
  finished["getVercelStaticAssets"] = "threw" =>
    /\ outcome.status = "threw"
    /\ pc = "done"
    /\ \A s \in { "processOutputDir", "buildWorkerFile", "buildMetadataFiles",
                  "writeBuildInfo" } : started[s] = 0
    /\ disk = EmptyDisk

C5_Witness ==
  /\ finished["getVercelStaticAssets"] = "threw"
  /\ outcome.error = "AssetCollisionError"

\* the route table of a run on the same input with the given dedup flag
RouteTableWith(disableChunksDedup) ==
  LET pf == processVercelFunctionsResult(Supported(functionsDir), functionsDir,
                                         disableChunksDedup)
  IN BuildRouteTable(vercelConfig, staticAssets,
                     IF functionsDirValid = "yes"
                     THEN Some(pf.prerenderedFunctions) ELSE Undefined,
                     IF functionsDirValid = "yes"
                     THEN Some(pf.edgeFunctions) ELSE Undefined)

\* the code layout of a run on the same input with the given dedup flag
LayoutWith(disableChunksDedup) ==
  LET pf == processVercelFunctionsResult(Supported(functionsDir), functionsDir,
                                         disableChunksDedup)
  IN [ functions |-> pf.functionFiles, chunks |-> pf.chunks ]

C9_NoFunctionsDir ==
  functionsDirValid = "no" =>
    /\ started["processVercelFunctions"] = 0
    /\ started["processVercelOutput"] > 0 =>
         pvoArgs = [ config |-> vercelConfig, assets |-> staticAssets,
                     prerendered |-> Undefined, edge |-> Undefined ]
    /\ pc = "done" =>
         /\ started["processVercelOutput"] = 1
         /\ outcome.status \in {"returned", "threw"}
         /\ outcome.status = "threw" =>
              \E s \in { "processVercelOutput", "buildWorkerFile",
                         "buildMetadataFiles", "printBuildSummary",
                         "writeBuildInfo" } : finished[s] = "threw"
         /\ outcome.status = "returned" =>
              /\ \A s \in { "processVercelOutput", "buildWorkerFile",
                            "buildMetadataFiles", "printBuildSummary",
                            "writeBuildInfo" } : finished[s] = "ok"
              /\ Logged("success:Generated")

C9_Witness ==
  /\ functionsDirValid = "no"
  /\ pc = "done"
  /\ outcome.status = "returned"
  /\ Logged("success:Generated")
  /\ Logged("log:noFunctions")

ReportedStages ==
  { "getVercelConfig", "getVercelStaticAssets", "processOutputDir",
    "processVercelOutput", "buildWorkerFile", "buildMetadataFiles",
    "writeBuildInfo" }

\* C10: the "Generated" success message and the "Build completed" log are
\* emitted only after getVercelConfig, getVercelStaticAssets, processOutputDir,
\* processVercelOutput, buildWorkerFile, buildMetadataFiles and writeBuildInfo
\* have all completed without error, the log only after the message; a run in
\* which one of them fails emits neither.
C10_SuccessOnlyWhenComplete ==
  /\ Logged("success:Generated") =>
       \A s \in ReportedStages : finished[s] = "ok"
  /\ Logged("log:buildCompleted") => Logged("success:Generated")
  /\ (\E s \in ReportedStages : finished[s] = "threw") =>
       ~Logged("success:Generated") /\ ~Logged("log:buildCompleted")

C10_Witness ==
  /\ Len(logs) >= 2
  /\ logs[Len(logs) - 1] = "success:Generated"
  /\ logs[Len(logs)] = "log:buildCompleted"
  /\ outcome.status = "returned"
====
